---- MODULE Spec2Model ----
(***************************************************************************)
(* The derivation engine of peacock: the per-non-terminal generate,       *)
(* serialize and unparse procedures of src/template.c (src/test.c is the  *)
(* same text without the unparser), instantiated for a handful of small   *)
(* grammars and run step by step with an explicit call stack, under the   *)
(* drivers of src/test-data/C.                                            *)
(***************************************************************************)
EXTENDS Integers, Sequences, FiniteSets, TLC

(***************************************************************************)
(* Bounds of the model.                                                    *)
(***************************************************************************)
\* largest derivation capacity (SEQ_LEN of the drivers, 4096 there)
MaxCap == 3
\* longest input handed to the unparser
MaxIn == 3

(***************************************************************************)
(* Grammars.  A symbol is a terminal (a non-empty byte string) or a       *)
(* reference to a non-terminal; an alternative is a sequence of symbols;  *)
(* a non-terminal has an ordered list of alternatives.  Bytes are written *)
(* as one-character strings.                                              *)
(***************************************************************************)
T(bytes) == [kind |-> "T", bytes |-> bytes, nt |-> ""]
N(nt) == [kind |-> "N", bytes |-> <<>>, nt |-> nt]

\* E -> 'a' | 'b' E          (the '0' | '1' E grammar of the scenarios)
RightRec == [entry |-> "E",
             rules |-> [E |-> << <<T(<<"a">>)>>, <<T(<<"b">>), N("E")>> >>]]
\* E -> 'a' E 'b' | 'c'      (terminals after a reference)
Nested == [entry |-> "E",
           rules |-> [E |-> << <<T(<<"a">>), N("E"), T(<<"b">>)>>, <<T(<<"c">>)>> >>]]
\* S -> A 'c' ; A -> 'a' | 'ab'   (single-rule entry point, two-byte terminal)
SeqAB == [entry |-> "S",
          rules |-> [S |-> << <<N("A"), T(<<"c">>)>> >>,
                     A |-> << <<T(<<"a">>)>>, <<T(<<"a", "b">>)>> >>]]
\* E -> E 'a' | 'b'          (left recursion)
LeftRec == [entry |-> "E",
            rules |-> [E |-> << <<N("E"), T(<<"a">>)>>, <<T(<<"b">>)>> >>]]
\* L -> 'a' L L | (empty)    (an empty alternative, two references)
Opt == [entry |-> "L",
        rules |-> [L |-> << <<T(<<"a">>), N("L"), N("L")>>, <<>> >>]]

GrammarIds == {"RightRec", "Nested", "SeqAB", "LeftRec", "Opt"}

Grammar(id) ==
    CASE id = "RightRec" -> RightRec
      [] id = "Nested" -> Nested
      [] id = "SeqAB" -> SeqAB
      [] id = "LeftRec" -> LeftRec
      [] id = "Opt" -> Opt

Alphabet == {"a", "b", "c"}
\* values a caller may leave in a derivation buffer (2 is out of range for
\* every non-terminal above)
ChoiceValues == {0, 1, 2}

\* out_len of the drivers that serialize a whole derivation (BUF_LEN, OUT_LEN):
\* no derivation of MaxCap steps serializes to more bytes
BUF_LEN == 2 * MaxCap

Min(x, y) == IF x < y THEN x ELSE y

VARIABLES
    g,          \* the grammar the engine was generated for
    scen,       \* the driver that runs
    ip,         \* the driver's position: index of its next call
    phase,      \* "idle", the entry point that is running, "done" or "trap"
    buf,        \* Sequence.buf / seq: the derivation buffer, 0 .. cap-1
    len,        \* Sequence.len / seq_len
    cap,        \* Sequence.capacity
    step,       \* the step cursor of generate and serialize
    cursor,     \* unparse_sequence's input cursor
    input,      \* the unparser's input bytes
    out,        \* the output buffer, 0 .. out_cap-1
    out_cap,    \* out_len as given to serialize_sequence
    stack,      \* the call stack of the engine procedures
    ret,        \* the value the last procedure returned
    outlens,    \* the out_len argument of the driver's serialize calls
    hist,       \* the driver's record of the calls that returned
    buf0,       \* the buffer as the driver first passed it
    len0,       \* the len the driver first passed
    trunc,      \* the running serialize call hit its output limit
    oob,        \* an access outside seq, out or input happened
    ub,         \* a switch ran on a choice that is no alternative index
    probe       \* the last procedure return: entry values against values at exit

vars == <<g, scen, ip, phase, buf, len, cap, step, cursor, input, out, out_cap,
          stack, ret, outlens, hist, buf0, len0, trunc, oob, ub, probe>>

Rules == Grammar(g).rules
NumAlts(nt) == Len(Rules[nt])
Alt(nt, j) == Rules[nt][j + 1]

(***************************************************************************)
(* The call stack.  A frame holds the locals of one procedure invocation. *)
(***************************************************************************)
Frame(nt) ==
    [nt |-> nt, pc |-> "entry", target |-> 0, pos |-> 1,
     out |-> 0, out_len |-> 0, original_out |-> 0,
     seq_idx |-> 0, tmp_cursor |-> 0, tmp_len |-> 0, cursor0 |-> 0]

Depth == Len(stack)
Top == stack[Depth]
Popped == SubSeq(stack, 1, Depth - 1)
WithTop(f) == [stack EXCEPT ![Depth] = f]

\* the deepest recursion the engines reach: every invocation but the last
\* holds one derivation slot
MaxDepth == MaxCap + 2

NoProbe == [kind |-> "none", ok |-> 1, len_in |-> 0, len_out |-> 0,
            cur_in |-> 0, cur_out |-> 0]

Zeros(n) == [i \in 0 .. n - 1 |-> 0]

Strings(n) == UNION {[1 .. k -> Alphabet] : k \in 0 .. n}

(***************************************************************************)
(* The drivers.  Each is a fixed sequence of calls of the three entry     *)
(* points.                                                                *)
(***************************************************************************)
Script(s) ==
    CASE s = "mutate" -> <<"mutate">>
      [] s = "roundtrip" -> <<"mutate", "serialize", "unparse", "serialize">>
      [] s = "unparse" -> <<"unparse", "serialize">>
      [] s = "serialize" -> <<"serialize", "serialize">>

\* what the driver does once the call at ip has returned r: test_unparse stops
\* at assert(seq_len > 0)
AfterCall(r) ==
    IF ip + 1 > Len(Script(scen)) \/ (scen = "unparse" /\ ip = 1 /\ r = 0)
    THEN "done" ELSE "idle"

InitCommon ==
    /\ ip = 1 /\ phase = "idle" /\ step = 0 /\ cursor = 0
    /\ stack = <<>> /\ ret = 0 /\ hist = <<>>
    /\ out = <<>> /\ out_cap = 0
    /\ buf0 = buf /\ len0 = len
    /\ trunc = FALSE /\ oob = FALSE /\ ub = FALSE /\ probe = NoProbe

\* fuzz_mutate.c: any capacity, any preserved prefix length up to it
InitMutate ==
    /\ scen = "mutate"
    /\ g \in GrammarIds
    /\ cap \in 0 .. MaxCap
    /\ len \in 0 .. cap
    /\ buf \in [0 .. cap - 1 -> ChoiceValues]
    /\ input = <<>> /\ outlens = <<0>>
    /\ InitCommon

\* fuzz_unparse.c: generate from scratch, serialize, unparse, serialize
InitRoundtrip ==
    /\ scen = "roundtrip"
    /\ g \in GrammarIds
    /\ cap \in 1 .. MaxCap
    /\ len = 0
    /\ buf = Zeros(cap)
    /\ input = <<>> /\ outlens = <<0, BUF_LEN, 0, BUF_LEN>>
    /\ InitCommon

\* test_unparse.c: unparse an input, serialize into input_len bytes
InitUnparse ==
    /\ scen = "unparse"
    /\ g \in GrammarIds
    /\ cap \in 0 .. MaxCap
    /\ len = 0
    /\ buf = Zeros(cap)
    /\ input \in Strings(MaxIn)
    /\ outlens = <<0, Len(input)>>
    /\ InitCommon

\* serialize_sequence on any buffer, twice, with out_len c1 <= c2
InitSerialize ==
    /\ scen = "serialize"
    /\ g \in GrammarIds
    /\ len \in 0 .. MaxCap
    /\ cap = len
    /\ buf \in [0 .. len - 1 -> ChoiceValues]
    /\ input = <<>>
    /\ \E c1 \in 0 .. BUF_LEN : \E c2 \in c1 .. BUF_LEN : outlens = <<c1, c2>>
    /\ InitCommon

Init == InitMutate \/ InitRoundtrip \/ InitUnparse \/ InitSerialize

(***************************************************************************)
(* Memory.  A store or load outside the buffer is recorded in oob; what   *)
(* an out-of-bounds load yields is any value.                             *)
(***************************************************************************)
Store(b, i, v) == IF i \in DOMAIN b THEN [b EXCEPT ![i] = v] ELSE b
Loads(b, i, any) == IF i \in DOMAIN b THEN {b[i]} ELSE any

\* switch (target): the arm that runs.  The default arm is
\* __builtin_unreachable(): a target >= k runs any arm or traps (-1).
Dispatch(target, k) == IF target \in 0 .. k - 1 THEN {target} ELSE -1 .. k - 1

\* the indices of the references of an alternative, in order
NonTerms(alt) == SelectSeq(alt, LAMBDA s : s.kind = "N")

(***************************************************************************)
(* generate_seq_<N>                                                        *)
(***************************************************************************)
\* a capacity check that is off by one
GenFullAbove(idx) == idx > cap

\* idx >= seq->capacity: no slot left
GenFull(idx) == idx >= cap

\* a store one slot too low
GenSlotBelow(idx) == idx - 1

\* the slot a fresh choice is stored in: seq->buf[idx]
GenSlot(idx) == idx

\* a replay test that is off by one
GenReplaysAtLen(idx) == step <= idx

\* *step < idx: the choice at the cursor is replayed
GenReplays(idx) == step < idx

\* return v from the running procedure
Return(v) ==
    /\ stack' = Popped
    /\ ret' = v

\* lines 27-42 (and 8-19 for a non-terminal with a single rule): pick the
\* alternative, by replay or by rand(), and advance the cursor
GenEntry ==
    /\ phase = "mutate" /\ Depth > 0 /\ Top.pc = "entry"
    /\ LET nt == Top.nt
           idx == len
           k == NumAlts(nt)
           enter(t) == stack' = WithTop([Top EXCEPT !.pc = "body", !.target = t,
                                                   !.cursor0 = step])
       IN  IF k = 1
           THEN IF step >= idx
                THEN IF GenFull(idx)
                     THEN /\ Return(0)
                          /\ UNCHANGED <<buf, len, step, oob, ub, phase>>
                     ELSE /\ buf' = Store(buf, GenSlot(idx), 0)
                          /\ oob' = (oob \/ GenSlot(idx) \notin DOMAIN buf)
                          /\ len' = idx + 1
                          /\ step' = step + 1
                          /\ enter(0)
                          /\ UNCHANGED <<ret, ub, phase>>
                ELSE /\ step' = step + 1
                     /\ enter(0)
                     /\ UNCHANGED <<buf, len, oob, ub, ret, phase>>
           ELSE IF GenReplays(idx)
                THEN \E target \in Loads(buf, step, ChoiceValues) :
                     \E arm \in Dispatch(target, k) :
                        /\ oob' = (oob \/ step \notin DOMAIN buf)
                        /\ ub' = (ub \/ target \notin 0 .. k - 1)
                        /\ step' = step + 1
                        /\ IF arm = -1
                           THEN phase' = "trap" /\ UNCHANGED stack
                           ELSE enter(arm) /\ UNCHANGED phase
                        /\ UNCHANGED <<buf, len, ret>>
                ELSE IF GenFull(idx)
                     THEN /\ Return(0)
                          /\ UNCHANGED <<buf, len, step, oob, ub, phase>>
                     ELSE \E target \in 0 .. k - 1 :
                             /\ buf' = Store(buf, GenSlot(idx), target)
                             /\ oob' = (oob \/ GenSlot(idx) \notin DOMAIN buf)
                             /\ len' = idx + 1
                             /\ step' = step + 1
                             /\ enter(target)
                             /\ UNCHANGED <<ret, ub, phase>>
    /\ UNCHANGED <<g, scen, ip, cap, cursor, input, out, out_cap, outlens, hist,
                   buf0, len0, trunc, probe>>

\* lines 44-66: the arm of the chosen alternative calls generate_seq_<M> for
\* each reference M in turn, returns 0 as soon as one returns 0, and 1 at its end
GenBody ==
    /\ phase = "mutate" /\ Depth > 0 /\ Top.pc \in {"body", "called"}
    /\ LET refs == NonTerms(Alt(Top.nt, Top.target))
       IN  IF Top.pc = "called"
           THEN IF ret = 0
                THEN Return(0)
                ELSE /\ stack' = WithTop([Top EXCEPT !.pc = "body", !.pos = Top.pos + 1])
                     /\ UNCHANGED ret
           ELSE IF Top.pos <= Len(refs)
                THEN /\ Depth < MaxDepth
                     /\ stack' = Append(WithTop([Top EXCEPT !.pc = "called"]),
                                        Frame(refs[Top.pos].nt))
                     /\ UNCHANGED ret
                ELSE Return(1)
    /\ UNCHANGED <<g, scen, ip, phase, buf, len, cap, step, cursor, input, out,
                   out_cap, outlens, hist, buf0, len0, trunc, oob, probe, ub>>

Derivation == [i \in 1 .. Min(len, cap) |-> buf[i - 1]]

\* generate_sequence (mutate_sequence), lines 70-80: validate, build the
\* Sequence, set the cursor to 0, call the entry point
CallMutate ==
    /\ phase = "idle" /\ Script(scen)[ip] = "mutate"
    /\ phase' = "mutate"
    /\ step' = 0
    /\ ret' = 0
    /\ stack' = IF cap = 0 THEN <<>> ELSE <<Frame(Grammar(g).entry)>>
    /\ UNCHANGED <<g, scen, ip, buf, len, cap, cursor, input, out, out_cap,
                   outlens, hist, buf0, len0, trunc, oob, probe, ub>>

\* generate_sequence, lines 72-74 and 84: return 0 or seq.len
ReturnMutate ==
    /\ phase = "mutate" /\ stack = <<>>
    /\ LET r == IF cap = 0 THEN 0 ELSE len
       IN  /\ hist' = Append(hist, [op |-> "mutate", ret |-> r, ok |-> ret,
                                    data |-> Derivation, trunc |-> FALSE])
           /\ phase' = AfterCall(r)
    /\ ip' = ip + 1
    /\ UNCHANGED <<g, scen, buf, len, cap, step, cursor, input, out, out_cap,
                   stack, ret, outlens, buf0, len0, trunc, oob, probe, ub>>

(***************************************************************************)
(* serialize_seq_<N>                                                       *)
(***************************************************************************)
\* size_t arithmetic wraps around (the model keeps 16 of its bits)
SizeMod == 2 ^ 16
SizeSub(x, y) == (x - y) % SizeMod

\* *step >= seq_len: the derivation has no step left
SerExhausted(seq_len) == step >= seq_len

\* a check for some room instead of enough room
SerFitsNonEmpty(out_len, n) == out_len # 0

\* !(out_len < sizeof(term)): the terminal fits in what is left of out
SerFits(out_len, n) == ~(out_len < n)

\* __builtin_memcpy_inline(out, term, sizeof(term))
Memcpy(o, at, bytes) ==
    [i \in DOMAIN o |-> IF i \in at .. at + Len(bytes) - 1 THEN bytes[i - at + 1] ELSE o[i]]

\* lines 90-98: return 0 at the end of the derivation, else read the choice at
\* the cursor, advance the cursor and switch on the choice
SerEntry ==
    /\ phase = "serialize" /\ Depth > 0 /\ Top.pc = "entry"
    /\ IF SerExhausted(len)
       THEN /\ Return(0)
            /\ UNCHANGED <<step, oob, ub, phase>>
       ELSE \E target \in Loads(buf, step, ChoiceValues) :
            \E arm \in Dispatch(target, NumAlts(Top.nt)) :
               /\ oob' = (oob \/ step >= len)
               /\ ub' = (ub \/ target \notin 0 .. NumAlts(Top.nt) - 1)
               /\ step' = step + 1
               /\ IF arm = -1
                  THEN phase' = "trap" /\ UNCHANGED stack
                  ELSE /\ stack' = WithTop([Top EXCEPT !.pc = "body", !.target = arm,
                                                       !.original_out = Top.out])
                       /\ UNCHANGED phase
               /\ UNCHANGED ret
    /\ UNCHANGED <<g, scen, ip, buf, len, cap, cursor, input, out, out_cap,
                   outlens, hist, buf0, len0, trunc, probe>>

\* lines 99-121: the arm of the alternative, one symbol per step.  A terminal
\* that does not fit jumps to end; a terminal that fits is copied; a reference
\* is a call whose result advances out; the end returns out - original_out
SerBody ==
    /\ phase = "serialize" /\ Depth > 0 /\ Top.pc \in {"body", "called"}
    /\ LET alt == Alt(Top.nt, Top.target)
           sym == alt[Top.pos]
           n == Len(sym.bytes)
       IN  IF Top.pc = "called"
           THEN /\ stack' = WithTop([Top EXCEPT !.pc = "body", !.pos = Top.pos + 1,
                                                !.out = Top.out + ret,
                                                !.out_len = SizeSub(Top.out_len, ret)])
                /\ UNCHANGED <<ret, out, oob, trunc>>
           ELSE IF Top.pos > Len(alt)
                THEN /\ Return(Top.out - Top.original_out)
                     /\ UNCHANGED <<out, oob, trunc>>
                ELSE IF sym.kind = "N"
                     THEN /\ Depth < MaxDepth
                          /\ stack' = Append(WithTop([Top EXCEPT !.pc = "called"]),
                                             [Frame(sym.nt) EXCEPT !.out = Top.out,
                                                                   !.out_len = Top.out_len])
                          /\ UNCHANGED <<ret, out, oob, trunc>>
                     ELSE IF SerFits(Top.out_len, n)
                          THEN /\ out' = Memcpy(out, Top.out, sym.bytes)
                               /\ oob' = (oob \/ Top.out + n > out_cap)
                               /\ stack' = WithTop([Top EXCEPT !.pos = Top.pos + 1,
                                                       !.out = Top.out + n,
                                                       !.out_len = SizeSub(Top.out_len, n)])
                               /\ UNCHANGED <<ret, trunc>>
                          ELSE /\ Return(Top.out - Top.original_out)
                               /\ trunc' = TRUE
                               /\ UNCHANGED <<out, oob>>
    /\ UNCHANGED <<g, scen, ip, phase, buf, len, cap, step, cursor, input, out_cap,
                   outlens, hist, buf0, len0, probe, ub>>

OutBytes(r) == [i \in 1 .. r |-> IF i - 1 \in DOMAIN out THEN out[i - 1] ELSE "?"]

\* serialize_sequence, lines 124-131: validate, set the cursor to 0, call the
\* entry point on the whole of out
CallSerialize ==
    /\ phase = "idle" /\ Script(scen)[ip] = "serialize"
    /\ phase' = "serialize"
    /\ out_cap' = outlens[ip]
    /\ out' = [i \in 0 .. outlens[ip] - 1 |-> "?"]
    /\ step' = 0
    /\ ret' = 0
    /\ trunc' = FALSE
    /\ stack' = IF len = 0 \/ outlens[ip] = 0
                THEN <<>>
                ELSE <<[Frame(Grammar(g).entry) EXCEPT !.out_len = outlens[ip]]>>
    /\ UNCHANGED <<g, scen, ip, buf, len, cap, cursor, input, outlens, hist,
                   buf0, len0, oob, probe, ub>>

\* serialize_sequence, lines 125-127 and 131: return 0 or the entry point's result
ReturnSerialize ==
    /\ phase = "serialize" /\ stack = <<>>
    /\ hist' = Append(hist, [op |-> "serialize", ret |-> ret, ok |-> 1,
                             data |-> OutBytes(ret), trunc |-> trunc])
    /\ phase' = AfterCall(ret)
    /\ ip' = ip + 1
    /\ UNCHANGED <<g, scen, buf, len, cap, step, cursor, input, out, out_cap,
                   stack, ret, outlens, buf0, len0, trunc, oob, probe, ub>>

(***************************************************************************)
(* unparse_sequence_<N>                                                    *)
(***************************************************************************)
\* a missing capacity check
UnpNeverFull(seq_idx) == FALSE

\* seq_idx >= seq->capacity: no slot left
UnpFull(seq_idx) == seq_idx >= cap

\* *cursor of the running invocation: the caller's tmp_cursor, or the cursor of
\* unparse_sequence for the entry point
CallerCursor == IF Depth = 1 THEN cursor ELSE stack[Depth - 1].tmp_cursor

\* input_len - tmp_cursor >= sizeof(TERMX) and memcmp(&input[tmp_cursor], TERMX,
\* sizeof(TERMX)) == 0
UnpMatches(tmp_cursor, bytes) ==
    /\ ~(SizeSub(Len(input), tmp_cursor) < Len(bytes))
    /\ \A i \in 1 .. Len(bytes) :
          tmp_cursor + i \in DOMAIN input /\ input[tmp_cursor + i] = bytes[i]

\* a failure path that leaves the length as it is
UnpKeepsLen(seq_idx) == len

\* the length the failing invocation leaves: seq->len = seq_idx
UnpRestored(seq_idx) == seq_idx

\* what a procedure return is recorded as: the length and the caller's cursor
\* at entry and at exit
Probe(ok, len_in, len_out, cur_in, cur_out) ==
    [kind |-> "unparse", ok |-> ok, len_in |-> len_in, len_out |-> len_out,
     cur_in |-> cur_in, cur_out |-> cur_out]

\* lines 138-147: fail at capacity, else claim the slot seq_idx and start the
\* first rule with tmp_cursor = *cursor
UnpEntry ==
    /\ phase = "unparse" /\ Depth > 0 /\ Top.pc = "entry"
    /\ LET seq_idx == len
       IN  IF UnpFull(seq_idx)
           THEN /\ Return(0)
                /\ probe' = Probe(0, len, len, CallerCursor, CallerCursor)
                /\ UNCHANGED len
           ELSE /\ len' = seq_idx + 1
                /\ stack' = WithTop([Top EXCEPT !.pc = "body", !.target = 0, !.pos = 1,
                                        !.seq_idx = seq_idx,
                                        !.tmp_cursor = CallerCursor,
                                        !.tmp_len = seq_idx + 1,
                                        !.cursor0 = CallerCursor])
                /\ UNCHANGED <<ret, probe>>
    /\ UNCHANGED <<g, scen, ip, phase, buf, cap, step, cursor, input, out, out_cap,
                   outlens, hist, buf0, len0, trunc, oob, ub>>

\* the rule being tried is given up.  With another rule left: len := tmp_len and
\* the next rule starts from *cursor
NextAlternative(f) ==
    /\ len' = f.tmp_len
    /\ stack' = WithTop([f EXCEPT !.pc = "body", !.target = f.target + 1, !.pos = 1,
                                  !.tmp_cursor = CallerCursor])
    /\ UNCHANGED <<ret, probe>>

\* lines 165-166: no rule matched: seq->len = seq_idx; return 0
UnpFail(f) ==
    /\ len' = UnpRestored(f.seq_idx)
    /\ Return(0)
    /\ probe' = Probe(0, f.seq_idx, UnpRestored(f.seq_idx), f.cursor0, CallerCursor)

\* break out of the rule's do { } while (0)
UnpBreak(f) ==
    IF f.target + 1 < NumAlts(f.nt) THEN NextAlternative(f) ELSE UnpFail(f)

\* lines 149-162: the rule, one item per step.  A terminal is compared with the
\* input at tmp_cursor; a reference is a call on &tmp_cursor; after the last
\* item the rule commits: *cursor = tmp_cursor, seq->buf[seq_idx] = rule index
UnpBody ==
    /\ phase = "unparse" /\ Depth > 0 /\ Top.pc \in {"body", "called"}
    /\ LET alt == Alt(Top.nt, Top.target)
           sym == alt[Top.pos]
       IN  IF Top.pc = "called"
           THEN IF ret = 0
                THEN UnpBreak(Top) /\ UNCHANGED <<buf, cursor, oob>>
                ELSE /\ stack' = WithTop([Top EXCEPT !.pc = "body", !.pos = Top.pos + 1])
                     /\ UNCHANGED <<ret, len, buf, cursor, oob, probe>>
           ELSE IF Top.pos > Len(alt)
                THEN /\ buf' = Store(buf, Top.seq_idx, Top.target)
                     /\ oob' = (oob \/ Top.seq_idx \notin DOMAIN buf)
                     /\ ret' = 1
                     /\ IF Depth = 1
                        THEN cursor' = Top.tmp_cursor /\ stack' = <<>>
                        ELSE /\ stack' = [Popped EXCEPT ![Depth - 1].tmp_cursor = Top.tmp_cursor]
                             /\ UNCHANGED cursor
                     /\ probe' = Probe(1, Top.seq_idx, len, Top.cursor0, Top.tmp_cursor)
                     /\ UNCHANGED len
                ELSE IF sym.kind = "N"
                     THEN /\ Depth < MaxDepth
                          /\ stack' = Append(WithTop([Top EXCEPT !.pc = "called"]),
                                             Frame(sym.nt))
                          /\ UNCHANGED <<ret, len, buf, cursor, oob, probe>>
                     ELSE IF UnpMatches(Top.tmp_cursor, sym.bytes)
                          THEN /\ stack' = WithTop([Top EXCEPT !.pos = Top.pos + 1,
                                       !.tmp_cursor = Top.tmp_cursor + Len(sym.bytes)])
                               /\ UNCHANGED <<ret, len, buf, cursor, oob, probe>>
                          ELSE UnpBreak(Top) /\ UNCHANGED <<buf, cursor, oob>>
    /\ UNCHANGED <<g, scen, ip, phase, cap, step, input, out, out_cap,
                   outlens, hist, buf0, len0, trunc, ub>>

\* unparse_sequence, lines 169-180: validate, build the Sequence with len 0,
\* set the cursor to 0, call the entry point.  fuzz_unparse passes the bytes
\* the serializer wrote and a second, zeroed buffer
CallUnparse ==
    /\ phase = "idle" /\ Script(scen)[ip] = "unparse"
    /\ phase' = "unparse"
    /\ input' = IF scen = "roundtrip" THEN hist[ip - 1].data ELSE input
    /\ buf' = IF scen = "roundtrip" THEN Zeros(cap) ELSE buf
    /\ len' = 0
    /\ cursor' = 0
    /\ ret' = 0
    /\ stack' = IF cap = 0 \/ Len(input') = 0 THEN <<>> ELSE <<Frame(Grammar(g).entry)>>
    /\ UNCHANGED <<g, scen, ip, cap, step, out, out_cap, outlens, hist,
                   buf0, len0, trunc, oob, probe, ub>>

\* unparse_sequence, lines 170-172 and 181: return 0 or seq.len
ReturnUnparse ==
    /\ phase = "unparse" /\ stack = <<>>
    /\ hist' = Append(hist, [op |-> "unparse", ret |-> len, ok |-> ret,
                             data |-> Derivation, trunc |-> FALSE])
    /\ phase' = AfterCall(len)
    /\ ip' = ip + 1
    /\ UNCHANGED <<g, scen, buf, len, cap, step, cursor, input, out, out_cap,
                   stack, ret, outlens, buf0, len0, trunc, oob, probe, ub>>

Next ==
    \/ CallMutate \/ GenEntry \/ GenBody \/ ReturnMutate
    \/ CallSerialize \/ SerEntry \/ SerBody \/ ReturnSerialize
    \/ CallUnparse \/ UnpEntry \/ UnpBody \/ ReturnUnparse

Spec == Init /\ [][Next]_vars

\* every call runs on the calling thread until it returns: a step that can be
\* taken is taken
FairSpec == Spec /\ WF_vars(Next)

(***************************************************************************)
(* The language of a grammar, for strings of at most n bytes: the least   *)
(* sets L[N] closed under the rules, and the prefixes P[N] of the members *)
(* of any length (every non-terminal above derives some string).          *)
(***************************************************************************)
Cat(A, B, n) == {s \in {x \o y : x \in A, y \in B} : Len(s) <= n}
Prefixes(s) == {SubSeq(s, 1, k) : k \in 0 .. Len(s)}
IsPrefix(s, t) == Len(s) <= Len(t) /\ SubSeq(t, 1, Len(s)) = s

RECURSIVE AltLang(_, _, _)
AltLang(alt, L, n) ==
    IF alt = <<>> THEN {<<>>}
    ELSE LET h == Head(alt)
         IN  Cat(IF h.kind = "T" THEN {h.bytes} ELSE L[h.nt], AltLang(Tail(alt), L, n), n)

RECURSIVE LangFix(_, _, _)
LangFix(G, L, n) ==
    LET M == [nt \in DOMAIN G.rules |->
                 UNION {AltLang(G.rules[nt][j], L, n) : j \in 1 .. Len(G.rules[nt])}]
    IN  IF M = L THEN L ELSE LangFix(G, M, n)

RECURSIVE AltPref(_, _, _, _)
AltPref(alt, L, P, n) ==
    IF alt = <<>> THEN {<<>>}
    ELSE LET h == Head(alt)
         IN  (IF h.kind = "T" THEN Prefixes(h.bytes) ELSE P[h.nt])
             \cup Cat(IF h.kind = "T" THEN {h.bytes} ELSE L[h.nt],
                      AltPref(Tail(alt), L, P, n), n)

RECURSIVE PrefFix(_, _, _, _)
PrefFix(G, L, P, n) ==
    LET Q == [nt \in DOMAIN G.rules |->
                 {s \in UNION {AltPref(G.rules[nt][j], L, P, n) : j \in 1 .. Len(G.rules[nt])} :
                     Len(s) <= n}]
    IN  IF Q = P THEN P ELSE PrefFix(G, L, Q, n)

\* the members of L(g) of at most BUF_LEN bytes
Lang ==
    [id \in GrammarIds |->
        LET G == Grammar(id)
        IN  LangFix(G, [nt \in DOMAIN G.rules |-> {}], BUF_LEN)[G.entry]]

\* the strings of at most BUF_LEN bytes that are a prefix of a member of L(g)
PrefixLang ==
    [id \in GrammarIds |->
        LET G == Grammar(id)
            L == LangFix(G, [nt \in DOMAIN G.rules |-> {}], BUF_LEN)
        IN  PrefFix(G, L, [nt \in DOMAIN G.rules |-> {}], BUF_LEN)[G.entry]]

(***************************************************************************)
(* Properties.                                                             *)
(***************************************************************************)

\* C1: mutate_sequence never rewrites the preserved prefix: in every state of
\* a call mutate_sequence(buf, k, cap), and so when it returns, buf[i] is what
\* the caller passed for every i < k.
MutationPreservesPrefix ==
    scen = "mutate" => \A i \in 0 .. len0 - 1 : buf[i] = buf0[i]

\* a call that kept a non-empty prefix and stored a fresh choice above it
MutationExtendedPrefix ==
    /\ scen = "mutate" /\ phase = "done" /\ ~ub
    /\ len0 > 0 /\ len > len0
    /\ buf[len0] # buf0[len0]

\* C2: fuzz_unparse's check: for a derivation generated from scratch that
\* completed, with no output cut short, serializing the unparsed bytes gives
\* the length and the bytes of the first serialization.
RoundtripHolds ==
    (scen = "roundtrip" /\ phase = "done" /\ hist[1].ok = 1
        /\ ~hist[2].trunc /\ ~hist[4].trunc)
    => (hist[4].ret = hist[2].ret /\ hist[4].data = hist[2].data)

\* C3: the bytes serialized from what mutate_sequence(buf, 0, cap) returned
\* are a prefix of a member of the language, for every cap.
GenerationSound ==
    (scen = "roundtrip" /\ Len(hist) >= 2) => hist[2].data \in PrefixLang[g]

\* C4: for c1 <= c2 the bytes serialize_sequence writes with out_len c1 are a
\* prefix of the bytes it writes with out_len c2.
SerializeMonotone ==
    (scen = "serialize" /\ phase = "done" /\ ~ub)
    => IsPrefix(hist[1].data, hist[2].data)

\* C5: unparse_sequence returns 0 for every input that is no member of the
\* language.
UnparseRejectsNonMembers ==
    (scen = "unparse" /\ Len(hist) >= 1 /\ input \notin Lang[g])
    => hist[1].ret = 0

\* C6: when unparse_sequence returns n > 0, serialize_sequence of the n steps
\* into input_len bytes returns input_len and writes the input.
UnparseReconstructs ==
    (scen = "unparse" /\ phase = "done" /\ hist[1].ret > 0)
    => (Len(hist) = 2 /\ hist[2].ret = Len(input) /\ hist[2].data = input)

\* C7: serialize_sequence returns at most out_len, and 0 for out_len 0, and
\* makes no store outside out and no load at or above seq_len.
SerializerBounded ==
    /\ (scen = "serialize" \/ phase = "serialize") => ~oob
    /\ \A i \in 1 .. Len(hist) :
          hist[i].op = "serialize" =>
             /\ hist[i].ret <= outlens[i]
             /\ outlens[i] = 0 => hist[i].ret = 0

\* a call on a valid derivation that stopped at a terminal that did not fit,
\* with out filled to its last byte
SerializerFilledOutput ==
    /\ scen = "serialize" /\ ~ub /\ Len(hist) >= 1
    /\ hist[1].trunc
    /\ outlens[1] > 1 /\ hist[1].ret = outlens[1]

\* C8: in every state of a call mutate_sequence(buf, len, cap) with cap > 0
\* and len <= cap, len_in <= len <= cap and no store goes outside buf; the
\* call returns len, and returns cap when len_in = cap.
DerivationLengthBound ==
    (scen = "mutate" /\ cap > 0) =>
       /\ len0 <= len /\ len <= cap
       /\ ~oob
       /\ phase = "done" =>
             /\ hist[1].ret = len
             /\ len0 = cap => hist[1].ret = cap

\* a call that extended a non-empty prefix until no slot was left
MutationExhaustedCapacity ==
    /\ scen = "mutate" /\ phase = "done"
    /\ 0 < len0 /\ len0 < cap
    /\ hist[1].ret = cap /\ hist[1].ok = 0

\* the invocations that are past their entry check
Active == Cardinality({i \in 1 .. Depth : stack[i].pc # "entry"})

\* each invocation past its entry check holds one step of the derivation
SlotPerInvocation ==
    /\ phase = "mutate" => Active <= step /\ step <= len /\ len <= cap
    /\ phase = "serialize" => Active <= step /\ step <= len
    /\ phase = "unparse" => Active <= len /\ len <= cap

\* C9: every call of the three entry points returns (or stops in a trap on a
\* choice that is no alternative index), for left-recursive grammars too,
\* and the invocations in progress never outnumber the derivation steps.
EveryCallReturns ==
    /\ []SlotPerInvocation
    /\ <>(phase \in {"done", "trap"})

\* the unparser of the left-recursive grammar returned a derivation
LeftRecursiveUnparseReturned ==
    /\ scen = "unparse" /\ g = "LeftRec" /\ phase = "done"
    /\ hist[1].ret = MaxCap

\* C10: an unparse invocation that returns failure leaves len and the
\* caller's cursor as they were at its entry, and every rule an invocation
\* tries starts at its entry cursor with len just above its slot.
UnparseFailureRestores ==
    /\ (probe.kind = "unparse" /\ probe.ok = 0) =>
          (probe.len_out = probe.len_in /\ probe.cur_out = probe.cur_in)
    /\ phase = "unparse" =>
          \A i \in 1 .. Depth :
             (stack[i].pc = "body" /\ stack[i].pos = 1) =>
                /\ stack[i].tmp_cursor = stack[i].cursor0
                /\ i = Depth => len = stack[i].seq_idx + 1

\* a nested invocation failed after an invocation below it had committed
UnparseNestedFailure ==
    /\ scen = "unparse" /\ phase = "unparse" /\ g = "Nested"
    /\ input = <<"a", "a", "c">> /\ cap = 3
    /\ probe.kind = "unparse" /\ probe.ok = 0
    /\ probe.len_in = 1 /\ probe.cur_in = 1
    /\ buf[2] = 1

\* C11 as stated: in a call of mutate_sequence the cursor is at most len at
\* every entry to a generate procedure, and a call whose entry point returns
\* success ends with the cursor equal to len.
GeneratorCursorReachesLen ==
    /\ phase = "mutate" => step <= len
    /\ (scen = "mutate" /\ phase = "done" /\ hist[1].ok = 1) => step = len

\* C11, amended: in a call of mutate_sequence the cursor is at most len in
\* every state; every invocation past its entry took its choice at an index
\* below len, and an invocation entered at or above the incoming len finds
\* the choice it sampled stored at its entry cursor; once a fresh choice is
\* stored the cursor equals len, and so it does when the call returns.  A call
\* that only replayed may return with the cursor below len.
GeneratorCursorInvariant ==
    (phase = "mutate" \/ scen = "mutate") =>
       /\ step <= len
       /\ len > len0 => step = len
       /\ \A i \in 1 .. Depth :
             stack[i].pc # "entry" =>
                /\ stack[i].cursor0 < len
                /\ stack[i].cursor0 >= len0 => buf[stack[i].cursor0] = stack[i].target

\* a call that replayed a non-empty prefix, sampled above it and whose entry
\* point returned success
GeneratorReplayedThenExtended ==
    /\ scen = "mutate" /\ phase = "done" /\ ~ub
    /\ hist[1].ok = 1
    /\ len0 > 0 /\ len > len0 /\ step = len

====
